---------------------------- MODULE Spec2Model ----------------------------
(***************************************************************************)
(* Revenue Forecast API (backend/app): the DataStore slot, the ModelStore  *)
(* maps, the five request handlers of main.py and the two forecasters.     *)
(*                                                                         *)
(* Numbers.  Quantities and prices are exact rationals [n, d] in lowest    *)
(* terms (d > 0); [n |-> 0, d |-> 0] is NaN, the result of 0.0 / 0.0 on a  *)
(* pandas Series.  A calendar month is an integer counted from January     *)
(* 2023 (0 = 2023-01, 11 = 2023-12, 12 = 2024-01).                         *)
(*                                                                         *)
(* Scheduling.  Every handler is an `async def` that never awaits between  *)
(* its first read and its last write of DataStore / ModelStore (the only   *)
(* await, file.read() in upload_transactions, precedes them), and uvicorn  *)
(* runs them on one event loop: a handler is one atomic step.              *)
(***************************************************************************)
EXTENDS Integers, Sequences, FiniteSets

VARIABLES
    trans_df,               \* DataStore._trans_df: << >> is None, <<rows>> a frame
    models,                 \* ModelStore._models: product_id -> rows the regressor was fit on
    avg_price_by_product,   \* ModelStore._avg_price_by_product: product_id -> price
    resp                    \* the response of the request being answered

vars == <<trans_df, models, avg_price_by_product, resp>>

-----------------------------------------------------------------------------
(* Bounds of the model *)

\* most calendar months of history of product "A"
MaxMonths == 6
\* most calendar months of history of product "B"
MaxNewMonths == 1
\* largest horizon_months of a forecast request
MaxHorizon == 2
\* largest months of a history request
MaxWindow == 3

-----------------------------------------------------------------------------
(* Exact arithmetic standing for Python / numpy floats *)

RECURSIVE Gcd(_, _)
Gcd(a, b) == IF b = 0 THEN a ELSE Gcd(b, a % b)

Abs(x) == IF x < 0 THEN 0 - x ELSE x

\* n/d in lowest terms, d > 0
R(n, d) ==
    LET g == Gcd(Abs(n), Abs(d))
        s == IF d < 0 THEN 0 - 1 ELSE 1
    IN  [n |-> (s * n) \div g, d |-> (s * d) \div g]

Zero == [n |-> 0, d |-> 1]
One == [n |-> 1, d |-> 1]
NaN == [n |-> 0, d |-> 0]
IsNaN(x) == x.d = 0
Int2R(k) == [n |-> k, d |-> 1]

RAdd(a, b) ==
    LET g == Gcd(a.d, b.d)
    IN  R(a.n * (b.d \div g) + b.n * (a.d \div g), (a.d \div g) * b.d)

RMul(a, b) ==
    LET g1 == Gcd(Abs(a.n), b.d)
        g2 == Gcd(Abs(b.n), a.d)
    IN  IF a.n = 0 \/ b.n = 0 THEN Zero
        ELSE [n |-> (a.n \div g1) * (b.n \div g2), d |-> (a.d \div g2) * (b.d \div g1)]

\* float division of a numpy value: 0/0 is NaN (callers never divide a
\* non-zero value by zero: revenues are >= 0, so a zero mean has zero terms)
RDiv(a, b) ==
    IF b.n = 0 THEN NaN
    ELSE LET s == IF b.n < 0 THEN 0 - 1 ELSE 1
         IN  RMul(a, [n |-> s * b.d, d |-> s * b.n])

RLt(a, b) ==
    LET g == Gcd(a.d, b.d)
    IN  a.n * (b.d \div g) < b.n * (a.d \div g)

RMax(a, b) == IF RLt(a, b) THEN b ELSE a

\* the integer square root of a perfect square
ISqrt(k) == CHOOSE r \in 0..k : r * r = k

\* Python's float ** float, as [raised, value]: 0.0 to a negative power
\* raises ZeroDivisionError; x ** 0.0 is 1.0 (also for x = 0.0).  Exponents
\* are -1/2 (the default elasticity), -1 and 0 (fitted slopes), bases >= 0;
\* the bases the model feeds to -1/2 are ratios of perfect squares.
Pow(x, e) ==
    IF e.n = 0 THEN [raised |-> FALSE, value |-> One]
    ELSE IF x.n = 0 THEN [raised |-> e.n < 0, value |-> Zero]
    ELSE IF e = R(0 - 1, 2) THEN [raised |-> FALSE, value |-> R(ISqrt(x.d), ISqrt(x.n))]
    ELSE [raised |-> FALSE, value |-> R(x.d, x.n)]

RECURSIVE SumF(_, _)
\* the sum of f over the set S
SumF(f, S) ==
    IF S = {} THEN Zero
    ELSE LET x == CHOOSE y \in S : TRUE
         IN  RAdd(f[x], SumF(f, S \ {x}))

\* pandas mean of f over S (NaN on an empty selection)
MeanF(f, S) == RDiv(SumF(f, S), Int2R(Cardinality(S)))

Max(S) == CHOOSE x \in S : \A y \in S : y <= x

-----------------------------------------------------------------------------
(* Transactions and calendar months *)

\* the product ids of the model, in the order sorted() and groupby give them
ProductOrder == <<"A", "B">>
Products == {ProductOrder[i] : i \in 1..Len(ProductOrder)}

\* Series.dt.month and Period.month of a month
MonthNum(m) == (m % 12) + 1

\* Period.year of a month
Year(m) == 2023 + (m \div 12)

\* strftime("%Y-%m") of a timestamp inside month m: the label <<year, month>>
StrfTime(m) == <<Year(m), MonthNum(m)>>

\* Period(m, "M").to_timestamp(how="end"): the last instant of the month,
\* as [month, end]; strftime("%Y-%m") reads the month alone
EndOfMonth(m) == [month |-> m, end |-> TRUE]

\* a row's quantity * price
Revenue(t) == RMul(Int2R(t.quantity), t.price)

ProductsOf(rows) == {t.product_id : t \in rows}
MonthsOf(rows) == {t.month : t \in rows}
RowsOfProduct(rows, p) == {t \in rows : t.product_id = p}
RowsOfMonth(rows, m) == {t \in rows : t.month = m}

\* groupby(["product_id", "month"]): the months that have a row of product p
ProductMonths(rows, p) == MonthsOf(RowsOfProduct(rows, p))

SumQuantity(S) == SumF([t \in S |-> Int2R(t.quantity)], S)
MeanQuantity(S) == MeanF([t \in S |-> Int2R(t.quantity)], S)
MeanPrice(S) == MeanF([t \in S |-> t.price], S)
SumRevenue(S) == SumF([t \in S |-> Revenue(t)], S)

\* the product-month aggregate row: quantity = sum, price = mean
MonthlyAgg(rows, p, m) ==
    LET S == RowsOfMonth(RowsOfProduct(rows, p), m)
    IN  [quantity |-> SumQuantity(S), avg_price |-> MeanPrice(S)]

\* groupby("month")["revenue"].sum() at month m
MonthlyRevenue(rows, m) == SumRevenue(RowsOfMonth(rows, m))

\* [start_period + i for i in range(n)] (empty for n <= 0)
Periods(start, n) == [i \in 1..n |-> start + (i - 1)]

\* sorted product ids of a set
SortedProducts(S) == SelectSeq(ProductOrder, LAMBDA p : p \in S)

\* dict.get(key, default)
Get(f, key, default) == IF key \in DOMAIN f THEN f[key] ELSE default

\* DataFrame["revenue"].sum() of a list of points
RECURSIVE TotalRevenue(_)
TotalRevenue(points) ==
    IF points = << >> THEN Zero
    ELSE RAdd(points[1].revenue, TotalRevenue(Tail(points)))

-----------------------------------------------------------------------------
(* services/forecast.py: ForecastService, the elasticity forecaster *)

\* `if len(g) < 6` of _estimate_elasticity_per_product
MinObservations == 6

\* the default elasticity, -0.5
DefaultElasticity == R(0 - 1, 2)

\* the floor 1e-6 under a divisor
Floor == R(1, 1000000)

\* the months of product p whose aggregate has quantity > 0 and price > 0
QualifyingMonths(rows, p) ==
    {m \in ProductMonths(rows, p) :
        /\ RLt(Zero, MonthlyAgg(rows, p, m).quantity)
        /\ RLt(Zero, MonthlyAgg(rows, p, m).avg_price)}

\* _estimate_elasticity_per_product: an entry for every product that has a
\* qualifying month; `slope` is the coefficient LinearRegression fits
estimate_elasticity_per_product(rows, slope) ==
    [p \in {q \in ProductsOf(rows) : QualifyingMonths(rows, q) # {}} |->
        IF Cardinality(QualifyingMonths(rows, p)) < MinObservations
        THEN DefaultElasticity
        ELSE slope]

\* _seasonality_index: month_num -> season_index for the month numbers that
\* occur in the history; NaN everywhere when the mean revenue is 0
seasonality_index(rows) ==
    LET nums == {MonthNum(m) : m \in MonthsOf(rows)}
        season == [k \in nums |->
                     LET ms == {m \in MonthsOf(rows) : MonthNum(m) = k}
                     IN  MeanF([m \in ms |-> MonthlyRevenue(rows, m)], ms)]
        overall == MeanF(season, nums)
    IN  [k \in nums |-> RDiv(season[k], overall)]

\* _baseline_quantity_per_product: the per-transaction mean quantity of the
\* products that have a row in the 12 months ending at the last month
baseline_quantity_per_product(rows) ==
    LET last_month == Max(MonthsOf(rows))
        start == last_month - 11
        recent == {t \in rows : t.month >= start}
    IN  [p \in ProductsOf(recent) |-> MeanQuantity(RowsOfProduct(recent, p))]

\* base_df of forecast_revenue: baseline.merge(avg_price, how="left") keeps
\* the products of `baseline`; a NaN baseline is filled with the mean quantity
BaseDf(rows) ==
    LET baseline == baseline_quantity_per_product(rows)
        mean_q == MeanQuantity(rows)
    IN  [p \in DOMAIN baseline |->
            [baseline_quantity |->
                IF IsNaN(baseline[p])
                THEN (IF IsNaN(mean_q) THEN One ELSE mean_q)
                ELSE baseline[p],
             avg_price |-> MeanPrice(RowsOfProduct(rows, p))]]

\* future.merge(season_idx, how="left").fillna({"season_index": 1.0})
SeasonOf(season_idx, k) ==
    IF k \in DOMAIN season_idx /\ ~IsNaN(season_idx[k]) THEN season_idx[k] ELSE One

\* the price and the quantity factor of one product row of base_df
ProductFactor(prod, p, price_multipliers, elasticities) ==
    LET current_price == IF IsNaN(prod.avg_price) THEN One ELSE prod.avg_price
        multiplier == Get(price_multipliers, p, One)
        new_price == RMul(current_price, multiplier)
        elasticity == Get(elasticities, p, DefaultElasticity)
        factor == Pow(RDiv(new_price, RMax(current_price, Floor)), elasticity)
    IN  [new_price |-> new_price, raised |-> factor.raised, quantity_factor |-> factor.value]

\* AnchorToHistory rescaling whenever the first forecast revenue is positive
\* (the test of last_hist_rev dropped)
AnchorToHistory_unguarded(rows, out) ==
    LET last_hist_rev == MonthlyRevenue(rows, Max(MonthsOf(rows)))
        first_forecast_rev == out[1].revenue
        scaled == IF RLt(Zero, first_forecast_rev)
                  THEN LET scale == RDiv(last_hist_rev, RMax(first_forecast_rev, Floor))
                       IN  [i \in 1..Len(out) |->
                              [month |-> out[i].month, revenue |-> RMul(out[i].revenue, scale)]]
                  ELSE out
    IN  <<[month |-> Max(MonthsOf(rows)), revenue |-> last_hist_rev]>> \o scaled

\* the anchoring block of forecast_revenue on `out` (month, revenue rows of
\* the future months, not empty): rescale, then prepend the anchor point
AnchorToHistory(rows, out) ==
    LET last_hist_month == EndOfMonth(Max(MonthsOf(rows)))
        last_hist_rev == MonthlyRevenue(rows, Max(MonthsOf(rows)))
        first_forecast_rev == out[1].revenue
        scaled == IF RLt(Zero, first_forecast_rev) /\ RLt(Zero, last_hist_rev)
                  THEN LET scale == RDiv(last_hist_rev, RMax(first_forecast_rev, Floor))
                       IN  [i \in 1..Len(out) |->
                              [month |-> out[i].month, revenue |-> RMul(out[i].revenue, scale)]]
                  ELSE out
    IN  <<[month |-> last_hist_month.month, revenue |-> last_hist_rev]>> \o scaled

\* forecast_revenue after base_df is built, as [raised, points]; the month
\* of a point is its strftime("%Y-%m") label.  On a frame without rows
\* last_month is NaT and NaT has no to_timestamp: the call raises.
ForecastFrom(base_df, rows, price_multipliers, horizon_months, anchor_to_history, slope) ==
    IF rows = {} THEN [raised |-> TRUE, points |-> << >>]
    ELSE
    LET elasticities == estimate_elasticity_per_product(rows, slope)
        season_idx == seasonality_index(rows)
        periods == Periods(Max(MonthsOf(rows)) + 1, horizon_months)
        fac == [p \in DOMAIN base_df |->
                  ProductFactor(base_df[p], p, price_multipliers, elasticities)]
        rev(p, m) == RMul(RMul(RMul(base_df[p].baseline_quantity, fac[p].quantity_factor),
                               SeasonOf(season_idx, MonthNum(m))),
                          fac[p].new_price)
        out == [i \in 1..Len(periods) |->
                  [month |-> periods[i],
                   revenue |-> SumF([p \in DOMAIN base_df |-> rev(p, periods[i])],
                                    DOMAIN base_df)]]
        anchored == IF anchor_to_history /\ out # << >> THEN AnchorToHistory(rows, out) ELSE out
    IN  IF \E p \in DOMAIN base_df : fac[p].raised
        THEN [raised |-> TRUE, points |-> << >>]
        ELSE IF DOMAIN base_df = {} \/ Len(periods) = 0
        THEN [raised |-> FALSE,
              points |-> [i \in 1..Len(periods) |->
                            [month |-> StrfTime(periods[i]), revenue |-> Zero]]]
        ELSE [raised |-> FALSE,
              points |-> [i \in 1..Len(anchored) |->
                            [month |-> StrfTime(anchored[i].month),
                             revenue |-> anchored[i].revenue]]]

\* ForecastService(df).forecast_revenue(price_multipliers, horizon_months, anchor_to_history)
forecast_revenue(rows, price_multipliers, horizon_months, anchor_to_history, slope) ==
    ForecastFrom(IF rows = {} THEN << >> ELSE BaseDf(rows),
                 rows, price_multipliers, horizon_months, anchor_to_history, slope)

-----------------------------------------------------------------------------
(* services/model.py: ModelStore, the learned quantity forecaster *)

\* `if len(g) < 6` of train_from_transactions
MinHistory == 6

\* the dict f after f[k] = g[k] for every key k of g
Assign(f, g) ==
    [k \in DOMAIN f \cup DOMAIN g |-> IF k \in DOMAIN g THEN g[k] ELSE f[k]]

\* train_from_transactions without the reset of the two maps
train_from_transactions_keep(old_models, old_prices, rows) ==
    LET len_g(p) == Cardinality(ProductMonths(rows, p))
        fitted == {p \in ProductsOf(rows) : ~(len_g(p) < MinHistory)}
        latest(p) == MonthlyAgg(rows, p, Max(ProductMonths(rows, p))).avg_price
    IN  [models |-> Assign(old_models, [p \in fitted |-> len_g(p)]),
         avg_price_by_product |->
            Assign(old_prices, [p \in fitted |-> IF IsNaN(latest(p)) THEN One ELSE latest(p)]),
         trained |-> [p \in ProductsOf(rows) |->
                        IF p \in fitted THEN "trained" ELSE "skipped: not enough history"]]

\* train_from_transactions counting a product's transactions, not the rows
\* of its monthly aggregate
train_from_transactions_rows(old_models, old_prices, rows) ==
    LET len_g(p) == Cardinality(RowsOfProduct(rows, p))
        fitted == {p \in ProductsOf(rows) : ~(len_g(p) < MinHistory)}
        latest(p) == MonthlyAgg(rows, p, Max(ProductMonths(rows, p))).avg_price
        cleared == << >>
    IN  [models |-> Assign(cleared, [p \in fitted |-> len_g(p)]),
         avg_price_by_product |->
            Assign(cleared, [p \in fitted |-> IF IsNaN(latest(p)) THEN One ELSE latest(p)]),
         trained |-> [p \in ProductsOf(rows) |->
                        IF p \in fitted THEN "trained" ELSE "skipped: not enough history"]]

\* train_from_transactions(df) on a store holding old_models and old_prices:
\* the maps it leaves in ModelStore and the status map it returns.  Both maps
\* are reset to {} and filled again; a product gets a regressor when its
\* monthly aggregate has at least MinHistory rows (dropna drops none: the
\* aggregate of an existing group is never missing).
\* GradientBoostingRegressor.fit is taken to succeed (finite inputs).
train_from_transactions(old_models, old_prices, rows) ==
    LET len_g(p) == Cardinality(ProductMonths(rows, p))
        fitted == {p \in ProductsOf(rows) : ~(len_g(p) < MinHistory)}
        latest(p) == MonthlyAgg(rows, p, Max(ProductMonths(rows, p))).avg_price
        cleared == << >>
    IN  [models |-> Assign(cleared, [p \in fitted |-> len_g(p)]),
         avg_price_by_product |->
            Assign(cleared, [p \in fitted |-> IF IsNaN(latest(p)) THEN One ELSE latest(p)]),
         trained |-> [p \in ProductsOf(rows) |->
                        IF p \in fitted THEN "trained" ELSE "skipped: not enough history"]]

\* has_models with >= for >
has_models_nonneg(ms) == Cardinality(DOMAIN ms) >= 0

\* ModelStore.has_models()
has_models(ms) == Cardinality(DOMAIN ms) > 0

\* predict_future_months: month (a timestamp, here the month) and revenue
\* rows; `pred` is what each product's regressor predicts (one quantity per
\* product, the price feature being constant over the horizon)
predict_future_months(ms, avg, rows, horizon_months, price_multipliers, pred) ==
    IF DOMAIN ms = {} THEN << >>
    ELSE
    LET periods == Periods(Max(MonthsOf(rows)) + 1, horizon_months)
        with_model == {p \in ProductsOf(rows) : p \in DOMAIN ms}
        new_price(p) == RMul(Get(avg, p, MeanPrice(RowsOfProduct(rows, p))),
                             Get(price_multipliers, p, One))
        revenue(p) == RMul(RMax(pred[p], Zero), new_price(p))
    IN  IF with_model = {} \/ Len(periods) = 0
        THEN [i \in 1..Len(periods) |-> [month |-> periods[i], revenue |-> Zero]]
        ELSE [i \in 1..Len(periods) |->
                [month |-> periods[i],
                 revenue |-> SumF([p \in with_model |-> revenue(p)], with_model)]]

-----------------------------------------------------------------------------
(* main.py: the request handlers *)

None == << >>
Some(rows) == <<rows>>
Rows(df) == df[1]

\* no request is being answered
Idle ==
    [op |-> "none", code |-> 0, path |-> "none", anchor |-> FALSE,
     horizon_months |-> 0, months |-> 0, price_multipliers |-> << >>,
     points |-> << >>, total_revenue |-> Zero, trained |-> << >>,
     products |-> << >>, rows |-> 0]

\* HTTPException(status_code=400, detail="No data uploaded yet.") and the like
BadRequest(op) == [Idle EXCEPT !.op = op, !.code = 400]

\* history_points with an inner merge: months without transactions drop out
history_points_inner(rows, months) ==
    LET last_month == Max(MonthsOf(rows))
        idx_periods == SelectSeq(Periods(last_month - (months - 1), months),
                                 LAMBDA m : m \in MonthsOf(rows))
    IN  [i \in 1..Len(idx_periods) |->
            [month |-> StrfTime(idx_periods[i]),
             revenue |-> MonthlyRevenue(rows, idx_periods[i])]]

\* the history rollup of /history on a frame with rows: the `months` periods
\* ending at the last month, left-merged with the monthly revenue, 0.0 filled
history_points(rows, months) ==
    LET last_month == Max(MonthsOf(rows))
        idx_periods == Periods(last_month - (months - 1), months)
    IN  [i \in 1..Len(idx_periods) |->
            [month |-> StrfTime(idx_periods[i]),
             revenue |-> IF idx_periods[i] \in MonthsOf(rows)
                         THEN MonthlyRevenue(rows, idx_periods[i])
                         ELSE Zero]]

\* the month column of the forecast response: timestamps are formatted "%Y-%m"
FormatPoints(points_df) ==
    [i \in 1..Len(points_df) |->
        [month |-> StrfTime(points_df[i].month), revenue |-> points_df[i].revenue]]

\* GET /health
health ==
    /\ resp.op = "none"
    /\ resp' = [Idle EXCEPT !.op = "health", !.code = 200]
    /\ UNCHANGED <<trans_df, models, avg_price_by_product>>

\* POST /upload of a file that fails validation (file name, CSV syntax,
\* missing columns, bad dates or numbers): 400 before any store is written
upload_rejected ==
    /\ resp.op = "none"
    /\ resp' = BadRequest("upload")
    /\ UNCHANGED <<trans_df, models, avg_price_by_product>>

\* POST /upload of a CSV that passes validation: store the frame, then train
\* (an exception of the training would be swallowed; none is raised)
upload_transactions(df) ==
    /\ resp.op = "none"
    /\ trans_df' = Some(df)
    /\ LET trained == train_from_transactions(models, avg_price_by_product, df)
       IN  /\ models' = trained.models
           /\ avg_price_by_product' = trained.avg_price_by_product
    /\ resp' = [Idle EXCEPT !.op = "upload", !.code = 200, !.rows = Cardinality(df)]

\* GET /products
list_products ==
    /\ resp.op = "none"
    /\ resp' = IF trans_df = None THEN BadRequest("products")
               ELSE [Idle EXCEPT !.op = "products", !.code = 200,
                                 !.products = SortedProducts(ProductsOf(Rows(trans_df)))]
    /\ UNCHANGED <<trans_df, models, avg_price_by_product>>

\* what the regressors may predict
RawPredictions == {Int2R(0 - 1), Int2R(2)}

\* what LinearRegression may fit for a product with enough observations
FittedSlopes(rows) ==
    IF \E p \in ProductsOf(rows) : Cardinality(QualifyingMonths(rows, p)) >= MinObservations
    THEN {Int2R(0 - 1), Zero}
    ELSE {DefaultElasticity}

\* the request of a forecast, answered
ForecastResponse(request, code, path, anchor_to_history, points) ==
    [Idle EXCEPT !.op = "forecast", !.code = code, !.path = path,
                 !.anchor = anchor_to_history,
                 !.horizon_months = request.horizon_months,
                 !.price_multipliers = request.price_multipliers,
                 !.points = points, !.total_revenue = TotalRevenue(points)]

\* POST /forecast
forecast(request) ==
    /\ resp.op = "none"
    /\ \/ /\ trans_df = None
          /\ resp' = [BadRequest("forecast") EXCEPT
                         !.horizon_months = request.horizon_months,
                         !.price_multipliers = request.price_multipliers]
       \/ /\ trans_df # None
          /\ has_models(models)
          /\ \E pred \in [DOMAIN models -> RawPredictions] :
                resp' = ForecastResponse(request, 200, "learned", FALSE,
                            FormatPoints(predict_future_months(models, avg_price_by_product,
                                Rows(trans_df), request.horizon_months,
                                request.price_multipliers, pred)))
       \/ /\ trans_df # None
          /\ ~has_models(models)
          /\ \E slope \in FittedSlopes(Rows(trans_df)) :
                LET anchor_to_history == TRUE
                    out == forecast_revenue(Rows(trans_df), request.price_multipliers,
                                            request.horizon_months, anchor_to_history, slope)
                IN  resp' = IF out.raised
                            THEN ForecastResponse(request, 500, "elasticity",
                                                  anchor_to_history, << >>)
                            ELSE ForecastResponse(request, 200, "elasticity",
                                                  anchor_to_history, out.points)
    /\ UNCHANGED <<trans_df, models, avg_price_by_product>>

\* train_models without the test for a missing dataset (None read as a frame
\* without rows)
train_models_unchecked ==
    /\ resp.op = "none"
    /\ LET result == train_from_transactions(models, avg_price_by_product,
                        IF trans_df = None THEN {} ELSE trans_df[1])
       IN  /\ models' = result.models
           /\ avg_price_by_product' = result.avg_price_by_product
           /\ resp' = [Idle EXCEPT !.op = "train", !.code = 200, !.trained = result.trained]
    /\ UNCHANGED trans_df

\* POST /train
train_models ==
    /\ resp.op = "none"
    /\ \/ /\ trans_df = None
          /\ resp' = BadRequest("train")
          /\ UNCHANGED <<models, avg_price_by_product>>
       \/ /\ trans_df # None
          /\ LET result == train_from_transactions(models, avg_price_by_product,
                                                   Rows(trans_df))
             IN  /\ models' = result.models
                 /\ avg_price_by_product' = result.avg_price_by_product
                 /\ resp' = [Idle EXCEPT !.op = "train", !.code = 200,
                                         !.trained = result.trained]
    /\ UNCHANGED trans_df

\* GET /history?months=
history(months) ==
    /\ resp.op = "none"
    /\ resp' = IF months <= 0 \/ trans_df = None
               THEN [BadRequest("history") EXCEPT !.months = months]
               ELSE [Idle EXCEPT !.op = "history", !.code = 200, !.months = months,
                                 !.points = IF Rows(trans_df) = {} THEN << >>
                                            ELSE history_points(Rows(trans_df), months)]
    /\ UNCHANGED <<trans_df, models, avg_price_by_product>>

\* the response goes out; the event loop takes the next request
send_response ==
    /\ resp.op # "none"
    /\ resp' = Idle
    /\ UNCHANGED <<trans_df, models, avg_price_by_product>>

-----------------------------------------------------------------------------
(* The requests the model sends *)

\* the price unit of an uploaded file: 1, or 1/4000000 (prices under 1e-6)
Units == {One, R(1, 4000000)}

\* the month the history of product "B" starts in
FirstMonths == {11, 13}

\* a validated upload: product "A" sells `qtyA` at `priceA` in each of the
\* months 0 .. cntA-1 (twice in month 0), product "B" sells `qtyB` at 4 in
\* each of the cntB months from firstB on; prices are in `unit`
Dataset(cntA, qtyA, priceA, cntB, firstB, qtyB, unit) ==
    {[row |-> i, product_id |-> "A", month |-> IF i = 0 THEN 0 ELSE i - 1,
      quantity |-> qtyA, price |-> RMul(Int2R(priceA), unit)] :
        i \in (IF cntA = 0 THEN 1 ELSE 0)..cntA}
    \cup
    {[row |-> 100 + i, product_id |-> "B", month |-> firstB + i - 1,
      quantity |-> qtyB, price |-> RMul(Int2R(4), unit)] : i \in 1..cntB}

Datasets ==
    {Dataset(cntA, qtyA, priceA, cntB, firstB, qtyB, unit) :
        cntA \in 0..MaxMonths, qtyA \in {0, 1}, priceA \in {0, 1},
        cntB \in 0..MaxNewMonths, firstB \in FirstMonths, qtyB \in {0, 1},
        unit \in Units}

\* price_multipliers of a request: any product may be missing
Multipliers ==
    UNION {[S -> {Zero, Int2R(4)}] : S \in SUBSET Products}

ForecastRequests ==
    [price_multipliers : Multipliers, horizon_months : (0 - 1)..MaxHorizon]

-----------------------------------------------------------------------------
(* The system *)

Init ==
    /\ trans_df = None
    /\ models = << >>
    /\ avg_price_by_product = << >>
    /\ resp = Idle

Next ==
    \/ health
    \/ upload_rejected
    \/ \E df \in Datasets : upload_transactions(df)
    \/ list_products
    \/ \E request \in ForecastRequests : forecast(request)
    \/ train_models
    \/ \E months \in (0 - 1)..MaxWindow : history(months)
    \/ send_response

Spec == Init /\ [][Next]_vars

-----------------------------------------------------------------------------
(* Vocabulary of the properties *)

\* the calendar month after the label <<year, month>>
NextLabel(l) == IF l[2] = 12 THEN <<l[1] + 1, 1>> ELSE <<l[1], l[2] + 1>>

\* label a is not after label b
LabelLE(a, b) == a[1] < b[1] \/ (a[1] = b[1] /\ a[2] <= b[2])

\* the label of the latest month that has a transaction
LatestLabel(rows) ==
    CHOOSE l \in {StrfTime(t.month) : t \in rows} :
        \A t \in rows : LabelLE(StrfTime(t.month), l)

\* each point is labelled with the calendar month after its predecessor's
ConsecutiveMonths(points) ==
    \A i \in 1..(Len(points) - 1) : points[i + 1].month = NextLabel(points[i].month)

\* the total revenue (sum of quantity * price) of the transactions labelled l
RevenueOfLabel(rows, l) == SumRevenue({t \in rows : StrfTime(t.month) = l})

\* a dataset with at least one row is stored
HasRows == trans_df # None /\ Rows(trans_df) # {}

\* the response of a forecast the elasticity forecaster returned
ElasticityReturned ==
    /\ resp.op = "forecast"
    /\ resp.path = "elasticity"
    /\ resp.code = 200

-----------------------------------------------------------------------------
(* C1 *)

\* C1: for every non-empty dataset and every horizon H >= 1 the forecast
\* returns exactly H points (H+1 on the anchored elasticity path), labelled
\* with consecutive calendar months, the first forecast month being the month
\* after the latest historical month.
C1_ForecastShape ==
    (resp.op = "forecast" /\ HasRows /\ resp.horizon_months >= 1) =>
        LET H == resp.horizon_months
            n == IF resp.path = "elasticity" /\ resp.anchor THEN H + 1 ELSE H
        IN  /\ resp.code = 200
            /\ Len(resp.points) = n
            /\ ConsecutiveMonths(resp.points)
            /\ resp.points[n - H + 1].month = NextLabel(LatestLabel(Rows(trans_df)))

\* The shape C1 asks for holds of every forecast that returns: C1 fails only
\* where the elasticity forecaster raises (C9).
ForecastShapeWhenReturned ==
    (resp.op = "forecast" /\ HasRows /\ resp.horizon_months >= 1 /\ resp.code = 200) =>
        LET H == resp.horizon_months
            n == IF resp.path = "elasticity" /\ resp.anchor THEN H + 1 ELSE H
        IN  /\ Len(resp.points) = n
            /\ ConsecutiveMonths(resp.points)
            /\ resp.points[n - H + 1].month = NextLabel(LatestLabel(Rows(trans_df)))

-----------------------------------------------------------------------------
(* C2 *)

\* the points are the `months` consecutive calendar months ending at the
\* latest historical month, each with the revenue of its transactions
\* (0.0 when it has none)
HistoryWindow(rows, months, points) ==
    /\ Len(points) = months
    /\ points[months].month = LatestLabel(rows)
    /\ ConsecutiveMonths(points)
    /\ \A i \in 1..months :
          /\ points[i].revenue = RevenueOfLabel(rows, points[i].month)
          /\ (\A t \in rows : StrfTime(t.month) # points[i].month) =>
                points[i].revenue = Zero

\* C2 as stated: for every stored dataset, one with zero rows included, and
\* every N >= 1 the history has exactly N points.
C2_HistoryAlwaysN ==
    (resp.op = "history" /\ trans_df # None /\ resp.months >= 1) =>
        /\ resp.code = 200
        /\ Len(resp.points) = resp.months
        /\ Rows(trans_df) # {} => HistoryWindow(Rows(trans_df), resp.months, resp.points)

\* C2 amended: for every stored dataset with at least one row and every
\* N >= 1 the history is the zero-filled window of N points; for a stored
\* dataset with zero rows it has no points.
C2_HistoryWindow ==
    (resp.op = "history" /\ trans_df # None /\ resp.months >= 1) =>
        /\ resp.code = 200
        /\ IF Rows(trans_df) = {}
           THEN resp.points = << >>
           ELSE HistoryWindow(Rows(trans_df), resp.months, resp.points)

\* a history whose window holds a month without transactions (filled with
\* 0.0) and a month with revenue
C2_Witness ==
    /\ resp.op = "history"
    /\ resp.code = 200
    /\ HasRows
    /\ resp.months = 3
    /\ Len(resp.points) = 3
    /\ \E i \in 1..3 : \A t \in Rows(trans_df) : StrfTime(t.month) # resp.points[i].month
    /\ \E i \in 1..3 : RLt(Zero, resp.points[i].revenue)

-----------------------------------------------------------------------------
(* C3 *)

\* C3: a forecast with a dataset present is served by the learned forecaster
\* exactly when a trained model exists at that moment, otherwise by the
\* elasticity forecaster with anchoring; when the last training left no
\* model (no product of the dataset has MinHistory monthly rows) it is the
\* elasticity forecaster.
C3_Dispatch ==
    (resp.op = "forecast" /\ trans_df # None) =>
        /\ resp.path = "learned" <=> DOMAIN models # {}
        /\ resp.path # "learned" => (resp.path = "elasticity" /\ resp.anchor)
        /\ (\A p \in ProductsOf(Rows(trans_df)) :
                Cardinality(ProductMonths(Rows(trans_df), p)) < MinHistory)
              => resp.path = "elasticity"

\* a forecast served by the elasticity forecaster after a training that left
\* no model, its anchor point in front
C3_Witness ==
    /\ HasRows
    /\ DOMAIN models = {}
    /\ ElasticityReturned
    /\ resp.horizon_months = 1
    /\ Len(resp.points) = 2

-----------------------------------------------------------------------------
(* C4 *)

\* C4: while DataStore holds no dataset, forecast, train, history and
\* products end in an error, produce no result and leave the dataset slot
\* and the model maps unchanged.
C4_NoDatasetRejected ==
    [][(trans_df = None /\ resp'.op \in {"forecast", "train", "history", "products"}) =>
          /\ resp'.code = 400
          /\ resp'.path = "none"
          /\ resp'.points = << >>
          /\ resp'.trained = << >>
          /\ resp'.products = << >>
          /\ trans_df' = None
          /\ models' = models
          /\ avg_price_by_product' = avg_price_by_product]_vars

\* a train request answered with the error while no dataset is stored
C4_Witness ==
    /\ trans_df = None
    /\ resp.op = "train"
    /\ resp.code = 400
    /\ DOMAIN models = {}

-----------------------------------------------------------------------------
(* C5 *)

\* C5: a forecast with horizon_months <= 0 and a history with months <= 0 are
\* rejected with an error before a forecaster or the rollup runs (stated of
\* the stores that hold no dataset or a dataset with rows).
C5_NonPositiveRejected ==
    /\ (resp.op = "forecast" /\ resp.horizon_months <= 0 /\ (trans_df = None \/ HasRows)) =>
          (resp.code = 400 /\ resp.path = "none")
    /\ (resp.op = "history" /\ resp.months <= 0) =>
          (resp.code = 400 /\ resp.points = << >>)

-----------------------------------------------------------------------------
(* C6 *)

-----------------------------------------------------------------------------
(* C7 *)

\* the store and the status map after a training on `rows`
TrainedFor(rows, ms, prices, status) ==
    /\ DOMAIN status = ProductsOf(rows)
    /\ \A p \in ProductsOf(rows) :
          IF Cardinality(ProductMonths(rows, p)) >= 6
          THEN status[p] = "trained" /\ p \in DOMAIN ms /\ p \in DOMAIN prices
          ELSE status[p] = "skipped: not enough history"
                 /\ p \notin DOMAIN ms /\ p \notin DOMAIN prices
    /\ DOMAIN ms \subseteq ProductsOf(rows)
    /\ DOMAIN prices \subseteq ProductsOf(rows)

\* C7: after train_from_transactions(d), whatever models existed before, a
\* model and a baseline price exist for exactly the products with at least 6
\* monthly rows in d, with status "trained", every other product of d is
\* "skipped: not enough history", no model of a product absent from d
\* survives (also in the training an upload runs), and training a dataset the
\* store was already trained on changes neither map.
C7_TrainingRebuilds ==
    [][/\ (resp'.op = "train" /\ resp'.code = 200) =>
             /\ TrainedFor(Rows(trans_df'), models', avg_price_by_product', resp'.trained)
             /\ (\A p \in ProductsOf(Rows(trans_df)) :
                    (p \in DOMAIN models) <=>
                        Cardinality(ProductMonths(Rows(trans_df), p)) >= 6)
                  => (models' = models /\ avg_price_by_product' = avg_price_by_product)
       /\ (resp'.op = "upload" /\ resp'.code = 200) =>
             \A p \in Products :
                (p \in DOMAIN models') <=>
                    Cardinality(ProductMonths(Rows(trans_df'), p)) >= 6]_vars

\* a training that skipped a product with exactly 5 monthly rows (in 6
\* transactions) and made no model for it
C7_Witness ==
    /\ resp.op = "train"
    /\ resp.code = 200
    /\ Cardinality(ProductMonths(Rows(trans_df), "A")) = 5
    /\ Cardinality(RowsOfProduct(Rows(trans_df), "A")) = 6
    /\ resp.trained["A"] = "skipped: not enough history"
    /\ "A" \notin DOMAIN models

-----------------------------------------------------------------------------
(* C8 *)

\* the anchored points: the anchor (last historical month, its revenue),
\* then the forecast `plain` with every revenue multiplied by factor(first,
\* last) when both are positive and left as it is otherwise
Anchored(rows, plain, points, factor(_, _)) ==
    LET last == RevenueOfLabel(rows, LatestLabel(rows))
        first == plain[1].revenue
    IN  /\ Len(points) = Len(plain) + 1
        /\ points[1] = [month |-> LatestLabel(rows), revenue |-> last]
        /\ \A i \in 1..Len(plain) :
              /\ points[i + 1].month = plain[i].month
              /\ points[i + 1].revenue =
                    IF RLt(Zero, first) /\ RLt(Zero, last)
                    THEN RMul(plain[i].revenue, factor(first, last))
                    ELSE plain[i].revenue

\* the forecast of the request without anchoring
PlainForecast ==
    forecast_revenue(Rows(trans_df), resp.price_multipliers, resp.horizon_months, FALSE,
                     CHOOSE slope \in FittedSlopes(Rows(trans_df)) : TRUE).points

-----------------------------------------------------------------------------
(* C9 *)

\* C9: with quantities, prices and multipliers >= 0 (a multiplier of 0 and a
\* product priced 0 included) forecast_revenue never raises and returns a
\* point per requested month (stated of the horizons >= 1).
C9_NeverRaises ==
    (resp.op = "forecast" /\ resp.path = "elasticity" /\ HasRows
        /\ resp.horizon_months >= 1) =>
        /\ resp.code = 200
        /\ Len(resp.points) >= resp.horizon_months

-----------------------------------------------------------------------------
(* C10 *)

\* base_df as C10 describes it: every product of the dataset, one without a
\* transaction in the trailing 12 months with the dataset-wide mean quantity
\* (1.0 if undefined) as its baseline
BaseDfOfAllProducts(rows) ==
    LET baseline == baseline_quantity_per_product(rows)
        mean_q == MeanQuantity(rows)
    IN  [p \in ProductsOf(rows) |->
            [baseline_quantity |->
                IF p \in DOMAIN baseline THEN baseline[p]
                ELSE IF IsNaN(mean_q) THEN One ELSE mean_q,
             avg_price |-> MeanPrice(RowsOfProduct(rows, p))]]

\* the forecast of the request with every product contributing
ForecastOfAllProducts ==
    ForecastFrom(BaseDfOfAllProducts(Rows(trans_df)), Rows(trans_df),
                 resp.price_multipliers, resp.horizon_months, resp.anchor,
                 CHOOSE slope \in FittedSlopes(Rows(trans_df)) : TRUE)

\* C10: every product of the dataset contributes to each forecast month, a
\* product without a transaction in the trailing 12 months with the
\* dataset-wide mean quantity as its baseline.
C10_EveryProductContributes ==
    (ElasticityReturned /\ HasRows /\ ~ForecastOfAllProducts.raised) =>
        resp.points = ForecastOfAllProducts.points

=============================================================================
